---- MODULE Spec2Model ----
(***************************************************************************)
(* Model of the monarch-xyz/agents reallocation bot:                       *)
(*   - TokenAmount                 (utils/token_amount.py)                 *)
(*   - BaseStrategy / MarketAction (strategies/base.py)                    *)
(*   - SimpleMaxAPYStrategy        (strategies/simple_max_apy.py)          *)
(*   - BlockchainService.rebalance (services/blockchain_service.py)        *)
(*   - AutomationService.run       (services/automation_service.py)        *)
(*   - GasService                  (services/gas_service.py)               *)
(*                                                                         *)
(* Strings that the code slices (market ids) are records                   *)
(* [prefix, rest]; insertion-ordered dicts are sequences of records in     *)
(* insertion order; an exception leaving a function is pc = "raised".      *)
(***************************************************************************)
EXTENDS Integers, Sequences, FiniteSets, TLC

\* ---------------------------------------------------------------- bounds
MaxPositions == 2      \* positions a user holds
MaxLiquidity == 2      \* largest liquidity the contract read reports
WordBits == 12         \* width standing for the 256 bits of MAX_UINT256
MaxActions == 3        \* actions in a list handed to the composer
MaxRoundTrip == 300    \* largest of the consecutive integers taken through a round trip
MaxUsers == 2          \* users Monarch returns for a run
MaxRetries == 2        \* largest max_retries of the gas policy

\* ------------------------------------------------------- program constants
MIN_DECIMALS == 0
MAX_DECIMALS == 77
\* max_market_impact_ratio = 0.05, held as the fraction 5/100
ImpactRatioNum == 5
ImpactRatioDen == 100

MAX_UINT256 == 2^WordBits - 1

\* ------------------------------------------------------- exceptions
\* a function returns Raise(kind) when the exception leaves it; a function that
\* returns a list or a dict returns Ok(value) otherwise
Raise(kind) == [raised |-> kind]
IsRaised(x) == "raised" \in DOMAIN x
Ok(v) == [value |-> v]

\* ------------------------------------------------------- TokenAmount
TokenAmountUnchecked(raw, decimals) == [raw |-> raw, decimals |-> decimals]

\* dataclass construction followed by __post_init__
TokenAmount(raw, decimals) ==
    IF raw < 0 THEN Raise("ValueError")
    ELSE IF raw > MAX_UINT256 THEN Raise("ValueError")
    ELSE IF decimals < MIN_DECIMALS THEN Raise("ValueError")
    ELSE IF decimals > MAX_DECIMALS THEN Raise("ValueError")
    ELSE [raw |-> raw, decimals |-> decimals]

\* from_wei on an int (or an integral Decimal): the integer itself
from_wei(wei_amount, decimals) == TokenAmount(wei_amount, decimals)

_validate_other_any(self, other) == [ok |-> TRUE]

_validate_other(self, other) ==
    IF self.decimals # other.decimals THEN Raise("ValueError") ELSE [ok |-> TRUE]

TokenAmount_add_left(self, other) == self

TokenAmount_add_wrapping(self, other) ==
    IF IsRaised(_validate_other(self, other)) THEN _validate_other(self, other)
    ELSE TokenAmount((self.raw + other.raw) % (MAX_UINT256 + 1), self.decimals)

\* __add__
TokenAmount_add(self, other) ==
    IF IsRaised(_validate_other(self, other)) THEN _validate_other(self, other)
    ELSE IF self.raw + other.raw > MAX_UINT256 THEN Raise("OverflowError")
    ELSE TokenAmount(self.raw + other.raw, self.decimals)

to_wei(self) == self.raw

TokenAmount_sub_floored(self, other) ==
    IF IsRaised(_validate_other(self, other)) THEN _validate_other(self, other)
    ELSE TokenAmount(IF self.raw < other.raw THEN 0 ELSE self.raw - other.raw,
                     self.decimals)

\* __sub__
TokenAmount_sub(self, other) ==
    IF IsRaised(_validate_other(self, other)) THEN _validate_other(self, other)
    ELSE IF self.raw < other.raw THEN Raise("ValueError")
    ELSE TokenAmount(self.raw - other.raw, self.decimals)

\* __lt__, __le__, __gt__, __ge__
TokenAmount_lt(self, other) ==
    IF IsRaised(_validate_other(self, other)) THEN _validate_other(self, other)
    ELSE Ok(self.raw < other.raw)
TokenAmount_le(self, other) ==
    IF IsRaised(_validate_other(self, other)) THEN _validate_other(self, other)
    ELSE Ok(self.raw <= other.raw)
TokenAmount_gt(self, other) ==
    IF IsRaised(_validate_other(self, other)) THEN _validate_other(self, other)
    ELSE Ok(self.raw > other.raw)
TokenAmount_ge(self, other) ==
    IF IsRaised(_validate_other(self, other)) THEN _validate_other(self, other)
    ELSE Ok(self.raw >= other.raw)

Pow10(n) == 10^n

\* n / d with the digits after the point dropped
RoundDown(n, d) == n \div d

\* the integer the ".Nf" format of a Decimal keeps of n / d (n >= 0): the context
\* rounds half to even
RoundHalfEven(n, d) ==
    IF 2 * (n % d) > d THEN (n \div d) + 1
    ELSE IF 2 * (n % d) < d THEN n \div d
    ELSE IF (n \div d) % 2 = 0 THEN n \div d
    ELSE (n \div d) + 1

\* str(amount): sign, integer digits, "." and fraction digits when written, "e" and
\* exponent when written
AmountText(negative, whole, dot, frac, has_exp, exp) ==
    [negative |-> negative, whole |-> whole, dot |-> dot, frac |-> frac,
     has_exp |-> has_exp, exp |-> exp]

RECURSIVE DigitsValue(_)
DigitsValue(ds) ==
    IF ds = <<>> THEN 0 ELSE 10 * DigitsValue(SubSeq(ds, 1, Len(ds) - 1)) + ds[Len(ds)]

\* len(amount_str.split('.')[1]): everything after the point, exponent included
decimal_places(text) ==
    Len(text.frac)
        + (IF ~text.has_exp THEN 0 ELSE IF text.exp < 0 THEN 3 ELSE 2)

\* a parse that reads the integer digits only
MantissaWhole(text) == text.whole * Pow10(Len(text.frac))

\* Decimal(amount_str) as mantissa * 10^exponent
Mantissa(text) == text.whole * Pow10(Len(text.frac)) + DigitsValue(text.frac)
Exponent(text) == (IF text.has_exp THEN text.exp ELSE 0) - Len(text.frac)

\* int(f"{amount_decimal * 10**decimals:.0f}")
wei_amount(text, decimals) ==
    LET shift == Exponent(text) + decimals
        magnitude == IF shift >= 0 THEN Mantissa(text) * Pow10(shift)
                     ELSE RoundHalfEven(Mantissa(text), Pow10(-shift))
    IN IF text.negative THEN -magnitude ELSE magnitude

from_units(text, decimals) ==
    IF text.dot /\ decimal_places(text) > decimals THEN Raise("ValueError")
    ELSE IF wei_amount(text, decimals) > MAX_UINT256 THEN Raise("ValueError")
    ELSE TokenAmount(wei_amount(text, decimals), decimals)

\* the string f"{amount_decimal:.{precision}f}": the integer part, the fraction
\* digits that come from the amount, and the zeros that pad them
Rendered(scaled, digits, zeros) ==
    [whole |-> scaled \div Pow10(digits), fraction |-> scaled % Pow10(digits),
     digits |-> digits, zeros |-> zeros]

to_units(self, precision) ==
    IF precision < 0 THEN Raise("ValueError")
    ELSE IF precision > MAX_DECIMALS THEN Raise("ValueError")
    ELSE IF precision >= self.decimals
    THEN Rendered(self.raw, self.decimals, precision - self.decimals)
    ELSE Rendered(RoundHalfEven(self.raw, Pow10(self.decimals - precision)),
                  precision, 0)

\* to_units() with the precision left out: the amount's own decimals
to_units_default(self) == to_units(self, self.decimals)

\* the decimal digits of n written on width places, most significant first
RECURSIVE DigitsOf(_, _)
DigitsOf(n, width) ==
    IF width = 0 THEN <<>> ELSE Append(DigitsOf(n \div 10, width - 1), n % 10)

\* the characters of a rendered string as from_units reads them back through
\* str(amount): integer digits, then "." and the fraction digits followed by the
\* padding zeros when the precision is not 0
RenderedText(rendered) ==
    AmountText(FALSE, rendered.whole, rendered.digits + rendered.zeros > 0,
               DigitsOf(rendered.fraction, rendered.digits)
                   \o [i \in 1..rendered.zeros |-> 0],
               FALSE, 0)

\* TokenAmount.from_units(TokenAmount.from_wei(raw, scale).to_units(precision=scale),
\* scale).to_wei()
round_trip(raw, scale) ==
    LET amount == from_wei(raw, scale)
        text == RenderedText(to_units(amount, scale))
        back == from_units(text, scale)
    IN IF IsRaised(amount) THEN amount
       ELSE IF IsRaised(to_units(amount, scale)) THEN to_units(amount, scale)
       ELSE IF IsRaised(back) THEN back
       ELSE Ok(to_wei(back))

NoCall == [op |-> "none"]

\* ------------------------------------------------------- data model
\* a market id as the services see it: "0x..." ; a cap id may arrive as "//..."
Id(k) == [prefix |-> "0x", rest |-> k]
SlashedId(k) == [prefix |-> "//", rest |-> k]

MarketKeys == {1, 2, 3, 4}
UnknownKeys == {5}

Asset(addr) == [address |-> addr, decimals |-> IF addr = "A" THEN 6 ELSE 18]

Market(k, addr, apy, supply) ==
    [unique_key |-> Id(k), loan_asset |-> Asset(addr),
     state |-> [supply_apy |-> apy, supply_assets |-> supply]]

MarketPosition(k, assets) ==
    [unique_key |-> Id(k), supply_assets |-> assets, supply_shares |-> 10 * assets + k]

MarketCap(id, cap) == [market_id |-> id, cap |-> cap]

\* ------------------------------------------------------- input domains
\* snapshots fetch_markets can cache in markets_by_id (insertion order = list order)
\* total supplies 39 and 79 allow 1 and 3 wei of impact at the ratio 0.05
TotalSupplies == <<39, 79, 79, 39>>

Snapshot(layout, apys) ==
    [k \in 1..4 |-> Market(k, layout[k], apys[k], TotalSupplies[k])]

MarketSnapshots ==
    {<<>>,
     Snapshot(<<"A", "A", "A", "B">>, <<2, 2, 1, 2>>),
     Snapshot(<<"A", "A", "A", "B">>, <<1, 3, 2, 1>>),
     Snapshot(<<"A", "A", "B", "B">>, <<1, 2, 1, 2>>)}

\* a user's positions: a supply of 1 or 2 wei in a market of the snapshot (the
\* first, the third and the last one), a borrower position (it supplies 0), or a
\* market the snapshot does not hold
PositionChoices ==
    {MarketPosition(1, 2), MarketPosition(3, 1), MarketPosition(3, 2),
     MarketPosition(4, 2), MarketPosition(1, 0)}
        \cup {MarketPosition(k, 1) : k \in UnknownKeys}

Cap(k) == MarketCap(Id(k), 100 * k)
SlashedCap(k) == MarketCap(SlashedId(k), 100 * k + 1)

\* a user's caps, as get_authorized_users delivers them
CapLists ==
    {<<>>, <<Cap(1), Cap(2), Cap(3), Cap(4)>>,
     <<SlashedCap(2), Cap(3)>>, <<Cap(5), Cap(4)>>}

SeqsUpTo(S, n) == UNION {[1..m -> S] : m \in 0..n}

\* what the contract read of get_market_liquidity can give
ReadFailed == [failed |-> TRUE, liquidity |-> 0]
ReadGave(n) == [failed |-> FALSE, liquidity |-> n]
NoRead == [failed |-> FALSE, liquidity |-> -1]
OracleReads == {ReadFailed} \cup {ReadGave(n) : n \in 0..MaxLiquidity}

\* ------------------------------------------------------- state
VARIABLES
    market_data,            \* markets_by_id of the run
    positions,              \* argument of the current invocation
    market_caps,            \* argument of the current invocation (the caller's objects)
    passed_caps,            \* history: market_caps as the caller passed them
    market_allocations,     \* self.market_allocations
    grouped_positions,      \* local
    withdrawals_by_market,  \* local
    supplies_by_market,     \* local
    capped_markets,         \* local: the capped markets of the group being walked
    gi, pi, ci,             \* loop positions: group, position in group, candidate
    pc,                     \* where the engine, the composer or the run stands
    actions,                \* the returned ReallocationStrategy.actions
    rebalance_result,       \* what BlockchainService.rebalance gave for the actions
    call,                   \* a call of a TokenAmount operation: arguments and result
    moves,                  \* history: the moves of this invocation
    last_read,              \* history: the contract read of the last step
    failed_reads,           \* history: positions <<gi, pi>> whose read failed
    entered_dirty,          \* history: accumulator non-empty on entry
    run,                    \* AutomationService.run: gas policy, whitelist, locals
    log                     \* history: the calls a run made to the services, in order

vars == <<market_data, positions, market_caps, passed_caps, market_allocations,
          grouped_positions, withdrawals_by_market, supplies_by_market,
          capped_markets, gi, pi, ci, pc, actions, rebalance_result,
          call, moves, last_read, failed_reads, entered_dirty, run, log>>

AllIds == {Id(k) : k \in MarketKeys \cup UnknownKeys}
NoAllocations == [id \in AllIds |-> 0]

\* ------------------------------------------------------- dict helpers
HasKey(dict, id) == \E i \in 1..Len(dict) : dict[i].unique_key = id
Get(dict, id) == dict[CHOOSE i \in 1..Len(dict) : dict[i].unique_key = id]

HasEntry(dict, id) == \E i \in 1..Len(dict) : dict[i].market_id = id
EntryIndex(dict, id) == CHOOSE i \in 1..Len(dict) : dict[i].market_id = id

\* ------------------------------------------------------- BaseStrategy
RECURSIVE GroupFrom(_, _, _)
GroupFrom(ps, markets, grouped) ==
    IF ps = <<>> THEN Ok(grouped)
    ELSE LET pos == Head(ps) IN
         IF ~HasKey(markets, pos.unique_key)
         THEN GroupFrom(Tail(ps), markets, grouped)
         ELSE LET token == Get(markets, pos.unique_key).loan_asset
                  supply_amount == from_wei(pos.supply_assets, token.decimals)
                  known == \E i \in 1..Len(grouped) :
                               grouped[i].loan_token.address = token.address
                  opened == IF known THEN grouped
                            ELSE Append(grouped,
                                        [loan_token |-> token,
                                         total_asset |-> from_wei(0, token.decimals),
                                         markets |-> <<>>])
                  g == CHOOSE i \in 1..Len(opened) :
                           opened[i].loan_token.address = token.address
                  total == IF IsRaised(supply_amount) THEN supply_amount
                           ELSE IF IsRaised(opened[g].total_asset)
                           THEN opened[g].total_asset
                           ELSE TokenAmount_add(opened[g].total_asset, supply_amount)
              IN IF IsRaised(total) THEN total
                 ELSE GroupFrom(Tail(ps), markets,
                                [opened EXCEPT ![g].total_asset = total,
                                               ![g].markets = Append(@, pos)])

group_positions_by_loan_asset(ps, markets) == GroupFrom(ps, markets, <<>>)

RECURSIVE InsertDescFirst(_, _)
InsertDescFirst(m, sorted) ==
    IF sorted = <<>> THEN <<m>>
    ELSE IF Head(sorted).state.supply_apy > m.state.supply_apy
    THEN <<Head(sorted)>> \o InsertDescFirst(m, Tail(sorted))
    ELSE <<m>> \o sorted

\* sorted(..., reverse=True) and list.sort(reverse=True): stable, descending
RECURSIVE InsertDesc(_, _)
InsertDesc(m, sorted) ==
    IF sorted = <<>> THEN <<m>>
    ELSE IF Head(sorted).state.supply_apy >= m.state.supply_apy
    THEN <<Head(sorted)>> \o InsertDesc(m, Tail(sorted))
    ELSE <<m>> \o sorted

RECURSIVE SortDesc(_, _)
SortDesc(ms, sorted) ==
    IF ms = <<>> THEN sorted ELSE SortDesc(Tail(ms), InsertDesc(Head(ms), sorted))

LoanAssetIsAny(m, loan_token_addr) == TRUE

LoanAssetIs(m, loan_token_addr) == m.loan_asset.address = loan_token_addr

filter_available_markets(loan_token_addr, markets) ==
    SortDesc(SelectSeq(markets, LAMBDA m : LoanAssetIs(m, loan_token_addr)), <<>>)

get_market_liquidity_unsafe(read) ==
    IF read.failed THEN MaxLiquidity ELSE read.liquidity

\* the except branch returns 0
get_market_liquidity(read) == IF read.failed THEN 0 ELSE read.liquidity

\* ------------------------------------------------------- MarketAction
create_withdrawal(position, market, move_amount, use_max_shares, target_cap) ==
    IF use_max_shares
    THEN [market_id |-> position.unique_key, action_type |-> "withdraw",
          amount |-> from_wei(0, market.loan_asset.decimals),
          shares |-> from_wei(position.supply_shares, 0),
          current_position |-> position, target_cap |-> target_cap]
    ELSE [market_id |-> position.unique_key, action_type |-> "withdraw",
          amount |-> from_wei(move_amount, market.loan_asset.decimals),
          shares |-> from_wei(0, market.loan_asset.decimals),
          current_position |-> position, target_cap |-> target_cap]

\* ------------------------------------------------------- SimpleMaxAPYStrategy
\* cap.market_id = '0x' + cap.market_id[2:] when it starts with '//'
FixCap(cap) ==
    IF cap.market_id.prefix = "//"
    THEN [cap EXCEPT !.market_id = [prefix |-> "0x", rest |-> cap.market_id.rest]]
    ELSE cap

FixCaps(caps) == [i \in 1..Len(caps) |-> FixCap(caps[i])]

\* caps_by_market = {cap.market_id: cap for cap in fixed_caps}
InCaps(caps, id) == \E i \in 1..Len(caps) : caps[i].market_id = id
CapOf(caps, id) ==
    caps[CHOOSE i \in 1..Len(caps) :
             /\ caps[i].market_id = id
             /\ \A j \in (i + 1)..Len(caps) : caps[j].market_id # id]

IsCapped(caps, m) == InCaps(caps, m.unique_key)

\* the capped_markets list of one asset group, sorted by APY descending
CappedMarkets(loan_token_addr, markets, caps) ==
    SortDesc(SelectSeq(filter_available_markets(loan_token_addr, markets),
                       LAMBDA m : IsCapped(caps, m)), <<>>)

\* "for group in grouped_positions": the first group from g on that has capped
\* markets, with its capped_markets list; gi > Len(grouped) when there is none
RECURSIVE EnterGroup(_, _, _, _)
EnterGroup(grouped, markets, caps, g) ==
    IF g > Len(grouped)
    THEN [gi |-> g, pi |-> 1, ci |-> 1, capped |-> <<>>]
    ELSE IF filter_available_markets(grouped[g].loan_token.address, markets) = <<>>
    THEN EnterGroup(grouped, markets, caps, g + 1)
    ELSE LET capped == CappedMarkets(grouped[g].loan_token.address, markets, caps)
         IN IF capped = <<>> \/ grouped[g].markets = <<>>
            THEN EnterGroup(grouped, markets, caps, g + 1)
            ELSE [gi |-> g, pi |-> 1, ci |-> 1, capped |-> capped]

\* the place the two inner for-loops stand at after candidate c of position p
Advance(grouped, markets, caps, capped, g, p, c) ==
    IF c <= Len(capped) THEN [gi |-> g, pi |-> p, ci |-> c, capped |-> capped]
    ELSE IF p + 1 <= Len(grouped[g].markets)
    THEN [gi |-> g, pi |-> p + 1, ci |-> 1, capped |-> capped]
    ELSE EnterGroup(grouped, markets, caps, g + 1)

KeepsPositionStrict(current_apy, target_apy) == current_apy > target_apy
KeepsPositionNever(current_apy, target_apy) == FALSE

\* current_apy >= target_apy: keep the position, stop walking
KeepsPosition(current_apy, target_apy) == current_apy >= target_apy

\* int(target_market_supply_wei * self.max_market_impact_ratio); below 2^31 the
\* double product truncates to the same integer as the exact fraction
max_allocation_wei(target_market) ==
    (target_market.state.supply_assets * ImpactRatioNum) \div ImpactRatioDen

remaining_allocation_wei_unplanned(target_market, allocations) ==
    max_allocation_wei(target_market)

remaining_allocation_wei(target_market, allocations) ==
    max_allocation_wei(target_market) - allocations[target_market.unique_key]

Min(a, b) == IF a <= b THEN a ELSE b

move_amount_wei_unread(position_amount_wei, remaining, liquidity) ==
    Min(position_amount_wei, remaining)

\* min(position, remaining), then capped at the liquidity
move_amount_wei(position_amount_wei, remaining, liquidity) ==
    IF Min(position_amount_wei, remaining) > liquidity
    THEN liquidity
    ELSE Min(position_amount_wei, remaining)

use_max_shares_never(move_wei, position_amount_wei) == move_wei > position_amount_wei

use_max_shares(move_wei, position_amount_wei) == move_wei >= position_amount_wei

\* withdrawals_by_market after the withdrawal of this move (or the exception)
MergeWithdrawal(dict, withdrawal) ==
    IF ~HasEntry(dict, withdrawal.market_id)
    THEN Ok(Append(dict, [market_id |-> withdrawal.market_id,
                          shares |-> withdrawal.shares,
                          amount |-> withdrawal.amount,
                          position |-> withdrawal.current_position,
                          target_cap |-> withdrawal.target_cap]))
    ELSE LET i == EntryIndex(dict, withdrawal.market_id)
             shares == TokenAmount_add(dict[i].shares, withdrawal.shares)
             amount == TokenAmount_add(dict[i].amount, withdrawal.amount)
         IN IF IsRaised(shares) THEN shares
            ELSE IF IsRaised(amount) THEN amount
            ELSE Ok([dict EXCEPT ![i].shares = shares, ![i].amount = amount])

MergeSupplyFirstOnly(dict, target_id, move_amount, pos, target_cap, decimals) ==
    IF ~HasEntry(dict, target_id)
    THEN Ok(Append(dict, [market_id |-> target_id, amount |-> move_amount,
                          position |-> pos, target_cap |-> target_cap,
                          decimals |-> decimals]))
    ELSE Ok(dict)

\* supplies_by_market after the supply of this move (or the exception)
MergeSupply(dict, target_id, move_amount, pos, target_cap, decimals) ==
    IF ~HasEntry(dict, target_id)
    THEN Ok(Append(dict, [market_id |-> target_id, amount |-> move_amount,
                          position |-> pos, target_cap |-> target_cap,
                          decimals |-> decimals]))
    ELSE LET i == EntryIndex(dict, target_id)
             amount == TokenAmount_add(dict[i].amount, move_amount)
         IN IF IsRaised(amount) THEN amount
            ELSE Ok([dict EXCEPT ![i].amount = amount])

WithdrawAction(w) ==
    [market_id |-> w.market_id, action_type |-> "withdraw", amount |-> w.amount,
     shares |-> w.shares, current_position |-> w.position, target_cap |-> w.target_cap]

SupplyAction(s) ==
    [market_id |-> s.market_id, action_type |-> "supply", amount |-> s.amount,
     shares |-> from_wei(0, s.decimals), current_position |-> s.position,
     target_cap |-> s.target_cap]

BuildActionListSuppliesFirst(withdrawals, supplies) ==
    [i \in 1..Len(supplies) |-> SupplyAction(supplies[i])]
        \o [i \in 1..Len(withdrawals) |-> WithdrawAction(withdrawals[i])]

\* the final list: combined withdrawals, then combined supplies
BuildActionList(withdrawals, supplies) ==
    [i \in 1..Len(withdrawals) |-> WithdrawAction(withdrawals[i])]
        \o [i \in 1..Len(supplies) |-> SupplyAction(supplies[i])]

\* ------------------------------------------------------- BlockchainService
\* the struct of a market; the model keeps the loan token of the five fields
_build_market_params(market) == [loan_token |-> market.loan_asset.address]

\* (market_params, assets, shares)
MarketActionTuple(action, markets) ==
    [market_params |-> _build_market_params(Get(markets, action.market_id)),
     assets |-> to_wei(action.amount),
     shares |-> to_wei(action.shares)]

\* "if not market: continue"
MarketFound(action, markets) == HasKey(markets, action.market_id)

from_markets_params(acts, markets) ==
    LET taken == SelectSeq(acts, LAMBDA a : MarketFound(a, markets)
                                             /\ a.action_type = "withdraw")
    IN [i \in 1..Len(taken) |-> MarketActionTuple(taken[i], markets)]

to_markets_params(acts, markets) ==
    LET taken == SelectSeq(acts, LAMBDA a : MarketFound(a, markets)
                                             /\ a.action_type # "withdraw")
    IN [i \in 1..Len(taken) |-> MarketActionTuple(taken[i], markets)]

WithSameLast(tuples) == tuples

\* to_markets_params[-1][1] = 2**256 - 1
WithMaxLast(tuples) == [tuples EXCEPT ![Len(tuples)].assets = MAX_UINT256]

\* markets[actions[0].market_id].loan_asset.address
token_address(acts, markets) ==
    IF HasKey(markets, acts[1].market_id)
    THEN Ok(Get(markets, acts[1].market_id).loan_asset.address)
    ELSE Raise("KeyError")

rebalance_unchecked(acts, markets) ==
    IF acts = <<>> THEN Raise("ValueError")
    ELSE IF IsRaised(token_address(acts, markets))
    THEN token_address(acts, markets)
    ELSE [token_address |-> token_address(acts, markets).value,
          from_markets_params |-> from_markets_params(acts, markets),
          to_markets_params |-> to_markets_params(acts, markets)]

\* the call of the agent contract that rebalance builds and sends, or the exception
rebalance(acts, markets) ==
    IF from_markets_params(acts, markets) = <<>> \/ to_markets_params(acts, markets) = <<>>
    THEN Raise("ValueError")
    ELSE IF IsRaised(token_address(acts, markets))
    THEN token_address(acts, markets)
    ELSE [token_address |-> token_address(acts, markets).value,
          from_markets_params |-> from_markets_params(acts, markets),
          to_markets_params |-> WithMaxLast(to_markets_params(acts, markets))]

NotCalled == [called |-> FALSE]

\* no run of the automation service is under way
NoRun ==
    [max_gas_price |-> 0, max_retries |-> 0, attempt |-> 0,
     whitelisted_addresses |-> {}, users |-> <<>>, ui |-> 1,
     users_reallocation_needed |-> 0, users_reallocation_errors |-> 0]

\* ------------------------------------------------------- actions
Init ==
    /\ market_data \in MarketSnapshots
    /\ positions = <<>>
    /\ market_caps = <<>>
    /\ passed_caps = <<>>
    /\ market_allocations = NoAllocations
    /\ grouped_positions = <<>>
    /\ withdrawals_by_market = <<>>
    /\ supplies_by_market = <<>>
    /\ capped_markets = <<>>
    /\ gi = 1 /\ pi = 1 /\ ci = 1
    /\ pc = "idle"
    /\ actions = <<>>
    /\ rebalance_result = NotCalled
    /\ call = NoCall
    /\ moves = <<>>
    /\ last_read = NoRead
    /\ failed_reads = {}
    /\ entered_dirty = FALSE
    /\ run = NoRun
    /\ log = <<>>

KeptAllocations(allocations) == allocations

\* self.market_allocations.clear()
ClearedAllocations(allocations) == NoAllocations

Dirty(allocations) == \E id \in AllIds : allocations[id] # 0

\* calculate_reallocation, from the call to the head of the loops
Invoke(ps, caps) ==
    /\ pc = "idle"
    /\ positions' = ps
    /\ passed_caps' = caps
    /\ entered_dirty' = Dirty(market_allocations)
    /\ moves' = <<>>
    /\ last_read' = NoRead
    /\ failed_reads' = {}
    /\ withdrawals_by_market' = <<>>
    /\ supplies_by_market' = <<>>
    /\ UNCHANGED <<market_data, rebalance_result, call, run, log>>
    /\ IF market_data = <<>>
       THEN /\ actions' = <<>>
            /\ pc' = "done"
            /\ market_caps' = caps
            /\ grouped_positions' = <<>>
            /\ capped_markets' = <<>>
            /\ gi' = 1 /\ pi' = 1 /\ ci' = 1
            /\ UNCHANGED market_allocations
       ELSE /\ market_allocations' = ClearedAllocations(market_allocations)
            /\ LET grouped == group_positions_by_loan_asset(ps, market_data) IN
               IF IsRaised(grouped)
               THEN /\ pc' = "raised"
                    /\ market_caps' = caps
                    /\ grouped_positions' = <<>>
                    /\ capped_markets' = <<>>
                    /\ gi' = 1 /\ pi' = 1 /\ ci' = 1
                    /\ UNCHANGED actions
               ELSE LET at == EnterGroup(grouped.value, market_data, FixCaps(caps), 1) IN
                    /\ grouped_positions' = grouped.value
                    /\ market_caps' = FixCaps(caps)
                    /\ capped_markets' = at.capped
                    /\ gi' = at.gi /\ pi' = at.pi /\ ci' = at.ci
                    /\ pc' = IF at.gi > Len(grouped.value) THEN "build" ELSE "walk"
                    /\ UNCHANGED actions

GoTo(at) ==
    /\ gi' = at.gi /\ pi' = at.pi /\ ci' = at.ci
    /\ capped_markets' = at.capped
    /\ pc' = IF at.gi > Len(grouped_positions) THEN "build" ELSE "walk"

\* "continue": the next candidate; "break": the next position
Continue ==
    GoTo(Advance(grouped_positions, market_data, market_caps, capped_markets,
                 gi, pi, ci + 1))
Break ==
    GoTo(Advance(grouped_positions, market_data, market_caps, capped_markets,
                 gi, pi, Len(capped_markets) + 1))

\* one iteration of "for target_market, target_apy in capped_markets"
TryCandidate(read) ==
    /\ pc = "walk"
    /\ LET group == grouped_positions[gi]
           pos == group.markets[pi]
           market == Get(market_data, pos.unique_key)
           target_market == capped_markets[ci]
           position_amount_wei == pos.supply_assets
           remaining == remaining_allocation_wei(target_market, market_allocations)
           liquidity == get_market_liquidity(read)
           move_wei == move_amount_wei(position_amount_wei, remaining, liquidity)
           decimals == target_market.loan_asset.decimals
           target_cap == CapOf(market_caps, target_market.unique_key)
           move_amount == from_wei(move_wei, decimals)
           withdrawal ==
               create_withdrawal(pos, market, move_wei,
                                 use_max_shares(move_wei, position_amount_wei),
                                 target_cap)
           withdrawals == MergeWithdrawal(withdrawals_by_market, withdrawal)
           supplies == MergeSupply(supplies_by_market, target_market.unique_key,
                                   move_amount, pos, target_cap, decimals)
       IN
       IF KeepsPosition(market.state.supply_apy, target_market.state.supply_apy)
       THEN /\ read = ReadFailed /\ Break
            /\ last_read' = NoRead
            /\ UNCHANGED <<market_allocations, withdrawals_by_market,
                           supplies_by_market, moves, failed_reads>>
       ELSE IF pos.unique_key = target_market.unique_key \/ remaining <= 0
       THEN /\ read = ReadFailed /\ Continue
            /\ last_read' = NoRead
            /\ UNCHANGED <<market_allocations, withdrawals_by_market,
                           supplies_by_market, moves, failed_reads>>
       ELSE /\ last_read' = read
            /\ failed_reads' = IF read.failed THEN failed_reads \cup {<<gi, pi>>}
                               ELSE failed_reads
            /\ IF move_wei <= 0
               THEN /\ Continue
                    /\ UNCHANGED <<market_allocations, withdrawals_by_market,
                                   supplies_by_market, moves>>
               ELSE IF IsRaised(move_amount) \/ IsRaised(withdrawal.amount)
                       \/ IsRaised(withdrawal.shares) \/ IsRaised(withdrawals)
                       \/ IsRaised(supplies)
               THEN /\ pc' = "raised"
                    /\ UNCHANGED <<gi, pi, ci, capped_markets, market_allocations,
                                   withdrawals_by_market, supplies_by_market, moves>>
               ELSE /\ withdrawals_by_market' = withdrawals.value
                    /\ supplies_by_market' = supplies.value
                    /\ market_allocations' =
                           [market_allocations EXCEPT
                                ![target_market.unique_key] = @ + move_wei]
                    /\ moves' = Append(moves,
                                       [at |-> <<gi, pi>>, position |-> pos,
                                        target |-> target_market.unique_key,
                                        amount |-> move_wei, liquidity |-> liquidity,
                                        withdrawal |-> withdrawal])
                    /\ Break
    /\ UNCHANGED <<market_data, positions, market_caps, passed_caps, actions,
                   grouped_positions, entered_dirty, rebalance_result, call,
                   run, log>>

\* "Create final list of actions" and return
BuildActions ==
    /\ pc = "build"
    /\ actions' = BuildActionList(withdrawals_by_market, supplies_by_market)
    /\ pc' = "done"
    /\ last_read' = NoRead
    /\ UNCHANGED <<market_data, positions, market_caps, passed_caps,
                   market_allocations, grouped_positions, withdrawals_by_market,
                   supplies_by_market, capped_markets, gi, pi, ci, moves,
                   failed_reads, entered_dirty, rebalance_result, call, run, log>>

\* the caller takes the plan (or the exception); the locals are gone, the strategy
\* object and its accumulator stay for the next user
Return ==
    /\ pc \in {"done", "raised", "executed"}
    /\ pc' = "idle"
    /\ positions' = <<>>
    /\ market_caps' = <<>>
    /\ passed_caps' = <<>>
    /\ grouped_positions' = <<>>
    /\ withdrawals_by_market' = <<>>
    /\ supplies_by_market' = <<>>
    /\ capped_markets' = <<>>
    /\ gi' = 1 /\ pi' = 1 /\ ci' = 1
    /\ actions' = <<>>
    /\ moves' = <<>>
    /\ last_read' = NoRead
    /\ failed_reads' = {}
    /\ entered_dirty' = FALSE
    /\ rebalance_result' = NotCalled
    /\ UNCHANGED <<market_data, market_allocations, call, run, log>>

\* analyze_user_positions calls the strategy with the user's positions and caps
Analyze ==
    /\ pc = "idle"
    /\ \E ps \in SeqsUpTo(PositionChoices, MaxPositions), caps \in CapLists :
           Invoke(ps, caps)

\* the loop body with the answer of the contract read
Walk ==
    /\ pc = "walk"
    /\ \E read \in OracleReads : TryCandidate(read)

Next ==
    \/ Analyze
    \/ Walk
    \/ BuildActions
    \/ Return

Spec == Init /\ [][Next]_vars

\* ------------------------------------------- the engine's plan handed to the composer
\* execute_reallocation: a plan with actions goes to BlockchainService.rebalance with
\* the markets the engine worked on
Execute ==
    /\ pc = "done"
    /\ actions # <<>>
    /\ rebalance_result' = rebalance(actions, market_data)
    /\ pc' = "executed"
    /\ UNCHANGED <<market_data, positions, market_caps, passed_caps,
                   market_allocations, grouped_positions, withdrawals_by_market,
                   supplies_by_market, capped_markets, gi, pi, ci, actions, moves,
                   last_read, failed_reads, entered_dirty, call, run, log>>

NextExecute ==
    \/ Analyze
    \/ Walk
    \/ BuildActions
    \/ Execute
    \/ Return

SpecExecute == Init /\ [][NextExecute]_vars

\* ------------------------------------------------------- the composer alone
ComposerAction(k, action_type, amount, shares) ==
    [market_id |-> Id(k), action_type |-> action_type,
     amount |-> amount, shares |-> shares]

\* actions as create_withdrawal and the supply branch build them, for markets of
\* the mapping and for one that is not in it
ComposerActions ==
    {ComposerAction(k, "withdraw", from_wei(2, 6), from_wei(0, 6)) : k \in {1, 5}}
        \cup {ComposerAction(1, "withdraw", from_wei(0, 6), from_wei(21, 0))}
        \cup {ComposerAction(k, "supply", from_wei(k, 6), from_wei(0, 6)) : k \in {2, 3, 5}}
        \cup {ComposerAction(4, "supply", from_wei(1, 18), from_wei(0, 18))}

InitCompose ==
    /\ market_data \in MarketSnapshots
    /\ actions \in SeqsUpTo(ComposerActions, MaxActions)
    /\ pc = "compose"
    /\ rebalance_result = NotCalled
    /\ call = NoCall
    /\ positions = <<>>
    /\ market_caps = <<>>
    /\ passed_caps = <<>>
    /\ market_allocations = NoAllocations
    /\ grouped_positions = <<>>
    /\ withdrawals_by_market = <<>>
    /\ supplies_by_market = <<>>
    /\ capped_markets = <<>>
    /\ gi = 1 /\ pi = 1 /\ ci = 1
    /\ moves = <<>>
    /\ last_read = NoRead
    /\ failed_reads = {}
    /\ entered_dirty = FALSE
    /\ run = NoRun
    /\ log = <<>>

\* BlockchainService.rebalance on the list of actions and the markets mapping
Rebalance ==
    /\ pc = "compose"
    /\ rebalance_result' = rebalance(actions, market_data)
    /\ pc' = "composed"
    /\ UNCHANGED <<market_data, positions, market_caps, passed_caps,
                   market_allocations, grouped_positions, withdrawals_by_market,
                   supplies_by_market, capped_markets, gi, pi, ci, actions, moves,
                   last_read, failed_reads, entered_dirty, call, run, log>>

NextCompose == Rebalance

SpecCompose == InitCompose /\ [][NextCompose]_vars

\* ------------------------------------------------------- TokenAmount alone
\* arguments of the constructor and of from_wei, around the limits
RawChoices == {-1, 0, 1, MAX_UINT256, MAX_UINT256 + 1}
DecimalsChoices == {MIN_DECIMALS - 1, MIN_DECIMALS, 18, MAX_DECIMALS, MAX_DECIMALS + 1}

\* operands of +, - and the comparisons
AmountChoices ==
    {TokenAmount(raw, decimals) :
         raw \in {0, 1, 2, MAX_UINT256 - 1, MAX_UINT256}, decimals \in {0, 6, 18}}

\* str(amount) of the strings and numbers passed to from_units
TextChoices ==
    {AmountText(negative, whole, dot, frac, has_exp, exp) :
         negative \in BOOLEAN,
         whole \in {0, 1, 15, 25, MAX_UINT256, MAX_UINT256 + 1},
         dot \in {TRUE}, frac \in {<<>>, <<0>>, <<5>>, <<0, 5>>, <<2, 5>>},
         has_exp \in {TRUE}, exp \in {-2, -1, 1, 2}}
      \cup {AmountText(negative, whole, dot, frac, FALSE, 0) :
               negative \in BOOLEAN,
               whole \in {0, 1, 15, 25, MAX_UINT256, MAX_UINT256 + 1},
               dot \in {TRUE}, frac \in {<<>>, <<0>>, <<5>>, <<0, 5>>, <<2, 5>>}}
      \cup {AmountText(negative, whole, FALSE, <<>>, has_exp, exp) :
               negative \in BOOLEAN,
               whole \in {0, 1, 15, 25, MAX_UINT256, MAX_UINT256 + 1},
               has_exp \in BOOLEAN, exp \in {-2, -1, 1, 2}}
ScaleChoices == {-1, 0, 1, 2}

\* amounts rendered by to_units, and the precision asked for
RenderedChoices ==
    {TokenAmount(raw, decimals) :
         raw \in {0, 5, 15, 25, 35, 125, 149, 150, 151, MAX_UINT256},
         decimals \in {0, 1, 2, 3}}
PrecisionChoices == {-1, 0, 1, 2, 3, 4, MAX_DECIMALS, MAX_DECIMALS + 1}

\* integers and scales taken through to_units and back through from_units
RoundTripRaws == (0..MaxRoundTrip) \cup {-1, MAX_UINT256 - 1, MAX_UINT256, MAX_UINT256 + 1}
RoundTripScales == {MIN_DECIMALS, 1, 2, 3, 5}

InitAmount ==
    /\ market_data = <<>>
    /\ actions = <<>>
    /\ pc = "amount"
    /\ rebalance_result = NotCalled
    /\ call = NoCall
    /\ positions = <<>>
    /\ market_caps = <<>>
    /\ passed_caps = <<>>
    /\ market_allocations = NoAllocations
    /\ grouped_positions = <<>>
    /\ withdrawals_by_market = <<>>
    /\ supplies_by_market = <<>>
    /\ capped_markets = <<>>
    /\ gi = 1 /\ pi = 1 /\ ci = 1
    /\ moves = <<>>
    /\ last_read = NoRead
    /\ failed_reads = {}
    /\ entered_dirty = FALSE
    /\ run = NoRun
    /\ log = <<>>

\* what a call of a TokenAmount operation leaves alone
engine_vars ==
    <<market_data, positions, market_caps, passed_caps, market_allocations,
      grouped_positions, withdrawals_by_market, supplies_by_market, capped_markets,
      gi, pi, ci, pc, actions, rebalance_result, moves, last_read, failed_reads,
      entered_dirty, run, log>>

\* TokenAmount(raw=..., decimals=...)
Construct ==
    /\ pc = "amount"
    /\ call.op = "none"
    /\ UNCHANGED engine_vars
    /\ \E raw \in RawChoices, decimals \in DecimalsChoices :
           call' = [op |-> "TokenAmount", raw |-> raw, decimals |-> decimals,
                        result |-> TokenAmount(raw, decimals)]

\* TokenAmount.from_wei(wei_amount, decimals)
FromWei ==
    /\ pc = "amount"
    /\ call.op = "none"
    /\ UNCHANGED engine_vars
    /\ \E raw \in RawChoices, decimals \in DecimalsChoices :
           call' = [op |-> "from_wei", raw |-> raw, decimals |-> decimals,
                        result |-> from_wei(raw, decimals)]

\* TokenAmount.from_units(amount, decimals)
FromUnits ==
    /\ pc = "amount"
    /\ call.op = "none"
    /\ UNCHANGED engine_vars
    /\ \E text \in TextChoices, decimals \in ScaleChoices :
           call' = [op |-> "from_units", text |-> text, decimals |-> decimals,
                        result |-> from_units(text, decimals)]

\* a + b
Add ==
    /\ pc = "amount"
    /\ call.op = "none"
    /\ UNCHANGED engine_vars
    /\ \E a \in AmountChoices, b \in AmountChoices :
           call' = [op |-> "add", a |-> a, b |-> b, result |-> TokenAmount_add(a, b)]

\* a - b
Sub ==
    /\ pc = "amount"
    /\ call.op = "none"
    /\ UNCHANGED engine_vars
    /\ \E a \in AmountChoices, b \in AmountChoices :
           call' = [op |-> "sub", a |-> a, b |-> b, result |-> TokenAmount_sub(a, b)]

\* a < b, a <= b, a > b, a >= b
Compare ==
    /\ pc = "amount"
    /\ call.op = "none"
    /\ UNCHANGED engine_vars
    /\ \E a \in AmountChoices, b \in AmountChoices :
           \/ call' = [op |-> "lt", a |-> a, b |-> b, result |-> TokenAmount_lt(a, b)]
           \/ call' = [op |-> "le", a |-> a, b |-> b, result |-> TokenAmount_le(a, b)]
           \/ call' = [op |-> "gt", a |-> a, b |-> b, result |-> TokenAmount_gt(a, b)]
           \/ call' = [op |-> "ge", a |-> a, b |-> b, result |-> TokenAmount_ge(a, b)]

\* a.to_units(precision)
ToUnits ==
    /\ pc = "amount"
    /\ call.op = "none"
    /\ UNCHANGED engine_vars
    /\ \E a \in RenderedChoices, precision \in PrecisionChoices :
           call' = [op |-> "to_units", a |-> a, precision |-> precision,
                        result |-> to_units(a, precision)]

\* a.to_units()
ToUnitsDefault ==
    /\ pc = "amount"
    /\ call.op = "none"
    /\ UNCHANGED engine_vars
    /\ \E a \in RenderedChoices :
           call' = [op |-> "to_units_default", a |-> a, result |-> to_units_default(a)]

\* from_wei, to_units at the amount's scale, from_units, to_wei
RoundTrip ==
    /\ pc = "amount"
    /\ call.op = "none"
    /\ UNCHANGED engine_vars
    /\ \E raw \in RoundTripRaws, scale \in RoundTripScales :
           call' = [op |-> "round_trip", raw |-> raw, decimals |-> scale,
                        result |-> round_trip(raw, scale)]

NextAmount ==
    \/ Construct
    \/ FromWei
    \/ FromUnits
    \/ Add
    \/ Sub
    \/ Compare
    \/ ToUnits
    \/ ToUnitsDefault
    \/ RoundTrip

SpecAmount == InitAmount /\ [][NextAmount]_vars

\* ------------------------------------------------------- AutomationService.run
\* self.w3.from_wei(gas_price_wei, 'gwei')
WeiPerGwei == 10^9

gas_price_acceptable_always(gas_price_wei, max_gas_price) == TRUE

\* gas_price_gwei <= self.max_gas_price
gas_price_acceptable(gas_price_wei, max_gas_price) ==
    gas_price_wei <= max_gas_price * WeiPerGwei

\* user.address.lower()
lower(address) == IF address = "0xAB" THEN "0xab" ELSE address

UserAuthorization(address) == [address |-> address]

\* users = [user for user in users if user.address.lower() in whitelisted_addresses]
\* when the whitelist is not empty
whitelist_filter(fetched, whitelisted_addresses) ==
    IF whitelisted_addresses = {} THEN fetched
    ELSE SelectSeq(fetched, LAMBDA u : lower(u.address) \in whitelisted_addresses)

user_failed_uncounted(r) == r

\* except Exception: users_reallocation_errors += 1
user_failed(r) == [r EXCEPT !.users_reallocation_errors = @ + 1]

\* the loop goes to its next user, or past its last
next_user(r) == [r EXCEPT !.ui = @ + 1]
next_user_pc(r) == IF r.ui + 1 > Len(r.users) THEN "notify_run" ELSE "analyze"

\* the calls of a run, as the log keeps them
GasReading(gas_price_wei) == [event |-> "gas_price", gas_price_wei |-> gas_price_wei]
MarketsFetched == [event |-> "fetch_markets"]
UsersFetched(fetched) == [event |-> "fetch_users", users |-> fetched]
Analyzed(address, outcome) ==
    [event |-> "analyze", user |-> address, outcome |-> outcome]
RebalanceCalled(address, sent, tx_hash) ==
    [event |-> "rebalance", user |-> address, sent |-> sent, tx_hash |-> tx_hash]
ReallocationNotified(address, tx_hash) ==
    [event |-> "notify_reallocation", user |-> address, tx_hash |-> tx_hash]
RunNotified(reallocations, errors) ==
    [event |-> "notify_run", reallocations |-> reallocations, errors |-> errors]
ErrorNotified == [event |-> "notify_error"]

\* send_rebalance_transaction: an exception, or the hash of the mined transaction
SendFailed == [failed |-> TRUE, tx_hash |-> "none"]
SendGave(tx_hash) == [failed |-> FALSE, tx_hash |-> tx_hash]
SendOutcomes == {SendFailed, SendGave("0xh1"), SendGave("0xh2")}

execute_reallocation_notify_always(address, plan, markets, send) ==
    [events |-> <<RebalanceCalled(address, ~send.failed, send.tx_hash),
                  ReallocationNotified(address, send.tx_hash)>>,
     raised |-> send.failed]

\* execute_reallocation: the calls it makes, in order, and whether it raises
execute_reallocation(address, plan, markets, send) ==
    IF plan = <<>> THEN [events |-> <<>>, raised |-> TRUE]
    ELSE IF IsRaised(rebalance(plan, markets)) \/ send.failed
    THEN [events |-> <<RebalanceCalled(address, FALSE, "none")>>, raised |-> TRUE]
    ELSE IF \E i \in 1..Len(plan) : ~HasKey(markets, plan[i].market_id)
    THEN [events |-> <<RebalanceCalled(address, TRUE, send.tx_hash)>>, raised |-> TRUE]
    ELSE [events |-> <<RebalanceCalled(address, TRUE, send.tx_hash),
                       ReallocationNotified(address, send.tx_hash)>>,
          raised |-> FALSE]

\* gas policies of the environment, gas prices the node reports (wei), whitelists
\* (lower case, as __init__ stores them) and the users Monarch returns
GasPolicies == {0, 1}
GasPrices == {0, WeiPerGwei, WeiPerGwei + 1}
Whitelists == {{}, {"0xab", "0xef"}}
UserChoices == {UserAuthorization(a) : a \in {"0xAB", "0xcd", "0xef"}}
UserLists ==
    {us \in SeqsUpTo(UserChoices, MaxUsers) :
         \A i, j \in 1..Len(us) : i # j => us[i] # us[j]}

\* a plan of one full exit of 1 wei from market s into the better market t, as the
\* engine builds it
OneMovePlan(s, t, markets) ==
    LET pos == MarketPosition(s, 1)
        decimals == Get(markets, Id(t)).loan_asset.decimals
        cap == Cap(t)
    IN <<WithdrawAction([market_id |-> Id(s), shares |-> from_wei(pos.supply_shares, 0),
                         amount |-> from_wei(0, decimals), position |-> pos,
                         target_cap |-> cap]),
         SupplyAction([market_id |-> Id(t), amount |-> from_wei(1, decimals),
                       position |-> pos, target_cap |-> cap, decimals |-> decimals])>>

\* what calculate_reallocation can return on the cached markets
EnginePlans(markets) ==
    {<<>>} \cup
    {OneMovePlan(s, t, markets) :
         <<s, t>> \in {<<s, t>> \in MarketKeys \X MarketKeys :
                          /\ markets # <<>>
                          /\ s < t
                          /\ LoanAssetIs(Get(markets, Id(s)),
                                         Get(markets, Id(t)).loan_asset.address)
                          /\ Get(markets, Id(t)).state.supply_apy
                                 > Get(markets, Id(s)).state.supply_apy}}

\* analyze_user_positions: an exception (positions not fetched, the engine raising)
\* or the plan
AnalysisOutcomes(markets) ==
    {Raise("Exception")} \cup {Ok(plan) : plan \in EnginePlans(markets)}

InitRun ==
    /\ market_data = <<>>
    /\ actions = <<>>
    /\ pc = "gas"
    /\ rebalance_result = NotCalled
    /\ call = NoCall
    /\ positions = <<>>
    /\ market_caps = <<>>
    /\ passed_caps = <<>>
    /\ market_allocations = NoAllocations
    /\ grouped_positions = <<>>
    /\ withdrawals_by_market = <<>>
    /\ supplies_by_market = <<>>
    /\ capped_markets = <<>>
    /\ gi = 1 /\ pi = 1 /\ ci = 1
    /\ moves = <<>>
    /\ last_read = NoRead
    /\ failed_reads = {}
    /\ entered_dirty = FALSE
    /\ log = <<>>
    /\ run \in {[NoRun EXCEPT !.max_gas_price = price, !.max_retries = retries,
                              !.whitelisted_addresses = whitelist] :
                    price \in GasPolicies, retries \in 0..MaxRetries,
                    whitelist \in Whitelists}

\* what a run leaves alone: the engine's locals and the TokenAmount call
run_unchanged ==
    <<positions, market_caps, passed_caps, market_allocations, grouped_positions,
      withdrawals_by_market, supplies_by_market, capped_markets, gi, pi, ci,
      rebalance_result, call, moves, last_read, failed_reads, entered_dirty>>

\* one iteration of the loop of wait_for_acceptable_gas; a failing read of the gas
\* price leaves run through its outer except
ReadGas ==
    /\ pc = "gas"
    /\ run.attempt < run.max_retries
    /\ UNCHANGED <<run_unchanged, market_data, actions>>
    /\ run' = [run EXCEPT !.attempt = @ + 1]
    /\ \E read \in {Raise("Exception")} \cup {Ok(price) : price \in GasPrices} :
           IF IsRaised(read)
           THEN /\ log' = Append(log, ErrorNotified)
                /\ pc' = "failed"
           ELSE /\ log' = Append(log, GasReading(read.value))
                /\ pc' = IF gas_price_acceptable(read.value, run.max_gas_price)
                         THEN "fetch_markets" ELSE "gas"

\* the loop is over: TimeoutError, which run logs before it returns
GasTimeout ==
    /\ pc = "gas"
    /\ run.attempt >= run.max_retries
    /\ pc' = "timed_out"
    /\ UNCHANGED <<run_unchanged, market_data, actions, run, log>>

\* fetch_markets caches the markets by unique key
FetchMarkets ==
    /\ pc = "fetch_markets"
    /\ UNCHANGED <<run_unchanged, actions, run>>
    /\ \E fetched \in {Raise("Exception")} \cup {Ok(s) : s \in MarketSnapshots} :
           IF IsRaised(fetched)
           THEN /\ log' = Append(log, ErrorNotified)
                /\ pc' = "failed"
                /\ UNCHANGED market_data
           ELSE /\ market_data' = fetched.value
                /\ log' = Append(log, MarketsFetched)
                /\ pc' = "fetch_users"

\* fetch_authorized_users, the whitelist filter and the two counters
FetchUsers ==
    /\ pc = "fetch_users"
    /\ UNCHANGED <<run_unchanged, market_data, actions>>
    /\ \E fetched \in {Raise("Exception")} \cup {Ok(us) : us \in UserLists} :
           IF IsRaised(fetched)
           THEN /\ log' = Append(log, ErrorNotified)
                /\ pc' = "failed"
                /\ UNCHANGED run
           ELSE LET users == whitelist_filter(fetched.value, run.whitelisted_addresses)
                IN /\ run' = [run EXCEPT !.users = users, !.ui = 1,
                                         !.users_reallocation_needed = 0,
                                         !.users_reallocation_errors = 0]
                   /\ log' = Append(log, UsersFetched(fetched.value))
                   /\ pc' = IF users = <<>> THEN "notify_run" ELSE "analyze"

\* the loop body up to "if strategy:"
AnalyzeUser ==
    /\ pc = "analyze"
    /\ UNCHANGED <<run_unchanged, market_data>>
    /\ \E outcome \in AnalysisOutcomes(market_data) :
           LET address == run.users[run.ui].address IN
           IF IsRaised(outcome)
           THEN /\ log' = Append(log, Analyzed(address, "raised"))
                /\ run' = next_user(user_failed(run))
                /\ pc' = next_user_pc(run)
                /\ UNCHANGED actions
           ELSE IF outcome.value = <<>>
           THEN /\ log' = Append(log, Analyzed(address, "none"))
                /\ run' = next_user(run)
                /\ pc' = next_user_pc(run)
                /\ UNCHANGED actions
           ELSE /\ log' = Append(log, Analyzed(address, "plan"))
                /\ run' = [run EXCEPT !.users_reallocation_needed = @ + 1]
                /\ actions' = outcome.value
                /\ pc' = "execute"

\* await self.execute_reallocation(user.address, strategy), and the except of the
\* loop body
ExecuteUser ==
    /\ pc = "execute"
    /\ UNCHANGED <<run_unchanged, market_data>>
    /\ \E send \in SendOutcomes :
           LET executed == execute_reallocation(run.users[run.ui].address, actions,
                                                market_data, send)
           IN /\ log' = log \o executed.events
              /\ run' = IF executed.raised THEN next_user(user_failed(run))
                        ELSE next_user(run)
              /\ pc' = next_user_pc(run)
              /\ actions' = <<>>

\* notify_run after the loop, and the return
NotifyRun ==
    /\ pc = "notify_run"
    /\ log' = Append(log, RunNotified(run.users_reallocation_needed,
                                      run.users_reallocation_errors))
    /\ pc' = "finished"
    /\ UNCHANGED <<run_unchanged, market_data, actions, run>>

NextRun ==
    \/ ReadGas
    \/ GasTimeout
    \/ FetchMarkets
    \/ FetchUsers
    \/ AnalyzeUser
    \/ ExecuteUser
    \/ NotifyRun

SpecRun == InitRun /\ [][NextRun]_vars

\* the run is one coroutine: every await returns or raises, so a step that can be
\* taken is taken
FairSpecRun == InitRun /\ [][NextRun]_vars /\ WF_vars(NextRun)

\* ------------------------------------------------------- properties
RECURSIVE SumSeq(_)
SumSeq(ns) == IF ns = <<>> THEN 0 ELSE Head(ns) + SumSeq(Tail(ns))

SupplyActionsOf(id) ==
    SelectSeq(actions, LAMBDA a : a.action_type = "supply" /\ a.market_id = id)
WithdrawActionsOf(id) ==
    SelectSeq(actions, LAMBDA a : a.action_type = "withdraw" /\ a.market_id = id)
MovesInto(id) == SelectSeq(moves, LAMBDA m : m.target = id)
MovesFrom(id) == SelectSeq(moves, LAMBDA m : m.position.unique_key = id)
Amounts(ms) == [i \in 1..Len(ms) |-> ms[i].amount]
RawAmounts(as) == [i \in 1..Len(as) |-> as[i].amount.raw]
WithdrawnAmounts(ms) == [i \in 1..Len(ms) |-> ms[i].withdrawal.amount.raw]
WithdrawnShares(ms) == [i \in 1..Len(ms) |-> ms[i].withdrawal.shares.raw]
Range(seq) == {seq[i] : i \in 1..Len(seq)}
KnownIds == {m.unique_key : m \in Range(market_data)}
LoanOf(id) == Get(market_data, id).loan_asset.address
\* a cap's market id as the engine reads it: the first two characters stand for "0x"
ReadAs(id) == [prefix |-> "0x", rest |-> id.rest]
PassedCapIds == {ReadAs(c.market_id) : c \in Range(passed_caps)}

C2_WithdrawWithinLiquidity ==
    pc = "done" =>
        \A a \in Range(actions) :
            a.action_type = "withdraw" =>
                \E m \in Range(MovesFrom(a.market_id)) : a.amount.raw <= m.liquidity

\* C3: every Supply targets a market that is in the caps passed by the caller and has
\* the loan asset of the position moved into it; a loan asset none of whose markets
\* is capped contributes no action.
C3_TargetsCappedSameAsset ==
    /\ \A m \in Range(moves) :
           /\ m.target \in PassedCapIds
           /\ m.target \in KnownIds
           /\ LoanOf(m.target) = LoanOf(m.position.unique_key)
    /\ pc = "done" =>
           \A a \in Range(actions) :
               /\ a.action_type = "supply" =>
                      /\ a.market_id \in PassedCapIds
                      /\ LoanOf(a.market_id) = LoanOf(a.current_position.unique_key)
                      /\ MovesInto(a.market_id) # <<>>
               /\ \E id \in PassedCapIds \cap KnownIds : LoanOf(id) = LoanOf(a.market_id)

\* a plan with a Supply, for a user who also holds a loan asset with no capped market
C3_Witness ==
    /\ pc = "done"
    /\ \E a \in Range(actions) : a.action_type = "supply"
    /\ \E p \in Range(positions) :
           /\ p.unique_key \in KnownIds
           /\ p.supply_assets > 0
           /\ ~\E id \in PassedCapIds \cap KnownIds : LoanOf(id) = LoanOf(p.unique_key)

\* C4: the withdrawal of a move is a full exit (asset amount 0, shares = the shares of
\* the position) exactly when the moved amount equals the supplied amount of the
\* position; otherwise it carries the moved amount and 0 shares. A source market
\* left by one move has that withdrawal as its Withdraw action.
C4_FullExitForm ==
    /\ \A m \in Range(moves) :
           IF m.amount = m.position.supply_assets
           THEN /\ m.withdrawal.amount.raw = 0
                /\ m.withdrawal.shares.raw = m.position.supply_shares
           ELSE /\ m.amount < m.position.supply_assets
                /\ m.withdrawal.amount.raw = m.amount
                /\ m.withdrawal.shares.raw = 0
    /\ pc = "done" =>
           \A m \in Range(moves) :
               Len(MovesFrom(m.position.unique_key)) = 1 =>
                   /\ Len(WithdrawActionsOf(m.position.unique_key)) = 1
                   /\ WithdrawActionsOf(m.position.unique_key)[1].amount
                          = m.withdrawal.amount
                   /\ WithdrawActionsOf(m.position.unique_key)[1].shares
                          = m.withdrawal.shares

\* a plan holding one full exit and one partial withdrawal
C4_Witness ==
    /\ pc = "done"
    /\ \E a, b \in Range(actions) :
           /\ a.action_type = "withdraw" /\ b.action_type = "withdraw"
           /\ a.amount.raw = 0 /\ a.shares.raw > 0
           /\ b.amount.raw > 0 /\ b.shares.raw = 0
           /\ b.amount.raw < b.current_position.supply_assets

\* C5: an invocation returns a plan with at most one Supply per target market and at
\* most one Withdraw per source market; the Supply carries the sum of the amounts
\* moved into the market and the Withdraw the sums of the amounts and of the shares
\* of the withdrawals that leave the market. Combining never fails.
C5_OneActionPerMarket ==
    /\ pc # "raised"
    /\ pc = "done" =>
           \A id \in AllIds :
               /\ Len(SupplyActionsOf(id)) = IF MovesInto(id) = <<>> THEN 0 ELSE 1
               /\ Len(WithdrawActionsOf(id)) = IF MovesFrom(id) = <<>> THEN 0 ELSE 1
               /\ SumSeq(RawAmounts(SupplyActionsOf(id))) = SumSeq(Amounts(MovesInto(id)))
               /\ MovesFrom(id) # <<>> =>
                      /\ WithdrawActionsOf(id)[1].amount.raw
                             = SumSeq(WithdrawnAmounts(MovesFrom(id)))
                      /\ WithdrawActionsOf(id)[1].shares.raw
                             = SumSeq(WithdrawnShares(MovesFrom(id)))

\* the capped markets a position could move to, read off the inputs
CandidatesOf(p) ==
    {id \in PassedCapIds \cap KnownIds : LoanOf(id) = LoanOf(p.unique_key)}
ApyOf(id) == Get(market_data, id).state.supply_apy
AlreadyBest ==
    \A p \in Range(positions) :
        p.unique_key \in KnownIds =>
            \A id \in CandidatesOf(p) : ApyOf(p.unique_key) >= ApyOf(id)

\* C6: when every position sits in a market whose APY is at least that of every
\* capped market of its loan asset, the plan is empty.
C6_NoOpWhenAlreadyBest ==
    AlreadyBest /\ pc \in {"walk", "build", "done"} =>
        /\ moves = <<>>
        /\ pc = "done" => actions = <<>>

\* a funded position next to another capped market with room and the same APY
C6_Witness ==
    /\ pc = "done"
    /\ AlreadyBest
    /\ \E p \in Range(positions) :
           /\ p.unique_key \in KnownIds
           /\ p.supply_assets > 0
           /\ \E id \in CandidatesOf(p) :
                  id # p.unique_key /\ ApyOf(id) = ApyOf(p.unique_key)

C8_AccumulatorStartsEmpty ==
    pc # "idle" /\ market_data # <<>> =>
        \A id \in AllIds : market_allocations[id] = SumSeq(Amounts(MovesInto(id)))

\* a plan made on a strategy object whose accumulator the previous user had filled
C8_Witness ==
    /\ entered_dirty
    /\ pc = "done"
    /\ moves # <<>>

\* C9: an invocation leaves its inputs as they were passed, each cap's market id
\* included.
C9_InputsReadOnly ==
    pc \in {"walk", "build", "done", "raised"} => market_caps = passed_caps

FoundActions(action_type) ==
    SelectSeq(actions, LAMBDA a : a.market_id \in KnownIds /\ a.action_type = action_type)

\* C10: an action whose market is not in the markets mapping is dropped and is not
\* fatal, whichever action of the list it is: when a withdraw and a supply remain,
\* the composition goes through, with one tuple per remaining action.
C10_MissingMarketDropped ==
    /\ pc = "composed"
    /\ FoundActions("withdraw") # <<>>
    /\ FoundActions("supply") # <<>>
    => /\ ~IsRaised(rebalance_result)
       /\ Len(rebalance_result.from_markets_params) = Len(FoundActions("withdraw"))
       /\ Len(rebalance_result.to_markets_params) = Len(FoundActions("supply"))

\* C11: composing fails with an error, and gives no call of the contract, whenever
\* the actions whose market is known hold no withdraw or no supply.
C11_EmptySideRejected ==
    /\ pc = "composed"
    /\ FoundActions("withdraw") = <<>> \/ FoundActions("supply") = <<>>
    => rebalance_result = Raise("ValueError")

\* a list with a withdraw and a supply, one side of which is lost with its market
C11_Witness ==
    /\ pc = "composed"
    /\ IsRaised(rebalance_result)
    /\ \E a, b \in Range(actions) :
           /\ a.action_type = "withdraw" /\ b.action_type = "supply"
           /\ a.market_id \notin KnownIds
           /\ b.market_id \in KnownIds
    /\ FoundActions("withdraw") = <<>>

\* C12: in a composed rebalance the last to tuple has the asset amount 2^256-1 (the
\* maximum raw value), every other to tuple and every from tuple carries the raw
\* amount and the raw shares of its action, and the tuples of each array are in the
\* order of their actions.
C12_LastToIsMax ==
    pc = "composed" /\ ~IsRaised(rebalance_result) =>
        LET from == rebalance_result.from_markets_params
            to == rebalance_result.to_markets_params
            withdraws == FoundActions("withdraw")
            supplies == FoundActions("supply")
        IN /\ Len(from) = Len(withdraws)
           /\ Len(to) = Len(supplies)
           /\ \A i \in 1..Len(from) :
                  /\ from[i].assets = withdraws[i].amount.raw
                  /\ from[i].shares = withdraws[i].shares.raw
                  /\ from[i].market_params.loan_token = LoanOf(withdraws[i].market_id)
           /\ \A i \in 1..Len(to) :
                  /\ to[i].assets = IF i = Len(to) THEN MAX_UINT256
                                    ELSE supplies[i].amount.raw
                  /\ to[i].shares = supplies[i].shares.raw
                  /\ to[i].market_params.loan_token = LoanOf(supplies[i].market_id)

\* two supplies of different amounts after a withdraw
C12_Witness ==
    /\ pc = "composed"
    /\ ~IsRaised(rebalance_result)
    /\ Len(rebalance_result.to_markets_params) = 2
    /\ rebalance_result.to_markets_params[1].assets
           # FoundActions("supply")[2].amount.raw
    /\ FoundActions("supply")[2].amount.raw # MAX_UINT256

KeptPositions == SelectSeq(positions, LAMBDA p : p.unique_key \in KnownIds)
SuppliedAssets(ps) == [i \in 1..Len(ps) |-> ps[i].supply_assets]

\* C13: grouping never fails for a position whose market is not in the mapping: the
\* position is skipped, and the others are split into one group per loan-asset
\* address, each with at least one member, each position in the group of its loan
\* asset and in no other, each total the sum of the supplied assets of the members.
C13_GroupsPartitionKeptPositions ==
    /\ ~(pc = "raised" /\ moves = <<>>)
    /\ pc \in {"walk", "build", "done", "raised"} /\ market_data # <<>> =>
           /\ \A i, j \in 1..Len(grouped_positions) :
                  i # j => grouped_positions[i].loan_token.address
                               # grouped_positions[j].loan_token.address
           /\ {g.loan_token.address : g \in Range(grouped_positions)}
                  = {LoanOf(p.unique_key) : p \in Range(KeptPositions)}
           /\ \A g \in Range(grouped_positions) :
                  /\ g.markets # <<>>
                  /\ g.markets
                         = SelectSeq(KeptPositions,
                                     LAMBDA p : LoanOf(p.unique_key) = g.loan_token.address)
                  /\ g.total_asset.raw = SumSeq(SuppliedAssets(g.markets))
                  /\ g.total_asset.decimals = g.loan_token.decimals

\* a user with a funded position in a known market and one in a market not listed
C13_Witness ==
    /\ pc \in {"walk", "build", "done"}
    /\ \E p \in Range(positions) : p.unique_key \notin KnownIds
    /\ \E g \in Range(grouped_positions) : g.total_asset.raw > 0

PlaceOf(id) == CHOOSE i \in 1..Len(market_data) : market_data[i].unique_key = id
LoanAddresses == {m.loan_asset.address : m \in Range(market_data)} \cup {"none"}
InOrder(ms) ==
    \A i, j \in 1..Len(ms) :
        i < j => /\ ms[i].state.supply_apy >= ms[j].state.supply_apy
                 /\ ms[i].state.supply_apy = ms[j].state.supply_apy
                        => PlaceOf(ms[i].unique_key) < PlaceOf(ms[j].unique_key)

\* C14: filter_available_markets returns exactly the markets of the requested loan
\* asset, in non-increasing APY order, markets of equal APY in their order in the
\* mapping; the capped candidates the engine walks are those of them that have a
\* cap, in the same order.
C14_FilterSortedStable ==
    /\ \A addr \in LoanAddresses :
           LET found == filter_available_markets(addr, market_data) IN
           /\ Range(found) = {m \in Range(market_data) : m.loan_asset.address = addr}
           /\ Len(found) = Cardinality(Range(found))
           /\ InOrder(found)
    /\ pc = "walk" =>
           /\ InOrder(capped_markets)
           /\ capped_markets
                  = SelectSeq(filter_available_markets(
                                  grouped_positions[gi].loan_token.address, market_data),
                              LAMBDA m : m.unique_key \in PassedCapIds)

\* the engine walks two candidates of equal APY
C14_Witness ==
    /\ pc = "walk"
    /\ Len(capped_markets) >= 2
    /\ capped_markets[1].state.supply_apy = capped_markets[2].state.supply_apy
    /\ ci = 2

\* C15: for amounts a and b of different decimals, a + b, a - b and each of
\* a < b, a <= b, a > b, a >= b fail with the mismatch error and give no value.
C15_ScaleMismatchFails ==
    /\ call.op \in {"add", "sub", "lt", "le", "gt", "ge"}
    /\ call.a.decimals # call.b.decimals
    => call.result = Raise("ValueError")

\* a comparison that the raw values alone would decide
C15_Witness ==
    /\ call.op = "ge"
    /\ call.a.decimals # call.b.decimals
    /\ call.a.raw > call.b.raw
    /\ IsRaised(call.result)

\* C16: for amounts of the same decimals, a + b is the amount of raw a.raw + b.raw and
\* the same decimals when the sum is at most the maximum raw value, and fails with
\* the overflow error when it is larger; it never wraps around.
C16_AddExactOrOverflow ==
    call.op = "add" /\ call.a.decimals = call.b.decimals =>
        IF call.a.raw + call.b.raw <= MAX_UINT256
        THEN call.result = [raw |-> call.a.raw + call.b.raw, decimals |-> call.a.decimals]
        ELSE call.result = Raise("OverflowError")

\* the sum is one above the maximum
C16_Witness ==
    /\ call.op = "add"
    /\ call.a.decimals = call.b.decimals
    /\ call.a.raw + call.b.raw = MAX_UINT256 + 1
    /\ IsRaised(call.result)

\* C17: for amounts of the same decimals, a - b is the amount of raw a.raw - b.raw
\* (not negative) and the same decimals when a >= b, and fails when a < b.
C17_SubExactOrUnderflow ==
    call.op = "sub" /\ call.a.decimals = call.b.decimals =>
        IF call.a.raw >= call.b.raw
        THEN /\ call.result = [raw |-> call.a.raw - call.b.raw,
                               decimals |-> call.a.decimals]
             /\ call.result.raw >= 0
        ELSE call.result = Raise("ValueError")

\* one less than the subtrahend
C17_Witness ==
    /\ call.op = "sub"
    /\ call.a.decimals = call.b.decimals
    /\ call.a.raw + 1 = call.b.raw
    /\ IsRaised(call.result)

\* C18: the constructor and from_wei fail when raw < 0, raw > 2^256-1, decimals < 0 or
\* decimals > 77 and succeed otherwise, the limits included; every amount that the
\* constructor, from_wei, from_units, + or - returns has 0 <= raw <= 2^256-1 and
\* 0 <= decimals <= 77.
C18_AmountsWithinLimits ==
    /\ call.op \in {"TokenAmount", "from_wei"} =>
           IF call.raw < 0 \/ call.raw > 2^WordBits - 1
              \/ call.decimals < 0 \/ call.decimals > 77
           THEN call.result = Raise("ValueError")
           ELSE call.result = [raw |-> call.raw, decimals |-> call.decimals]
    /\ call.op \in {"TokenAmount", "from_wei", "from_units", "add", "sub"}
       /\ ~IsRaised(call.result) =>
           /\ 0 <= call.result.raw /\ call.result.raw <= 2^WordBits - 1
           /\ 0 <= call.result.decimals /\ call.result.decimals <= 77

\* the largest raw value with the largest decimals
C18_Witness ==
    /\ call.op = "from_wei"
    /\ call.raw = 2^WordBits - 1
    /\ call.decimals = 77
    /\ call.result = [raw |-> call.raw, decimals |-> call.decimals]

\* the value of the text times 10^decimals, when it is an integer
ScalesToInteger(text, decimals) ==
    \/ Exponent(text) + decimals >= 0
    \/ Mantissa(text) % Pow10(-(Exponent(text) + decimals)) = 0
ScaledInteger(text, decimals) ==
    (IF text.negative THEN -1 ELSE 1)
        * (IF Exponent(text) + decimals >= 0
           THEN Mantissa(text) * Pow10(Exponent(text) + decimals)
           ELSE Mantissa(text) \div Pow10(-(Exponent(text) + decimals)))

\* C19: from_units never truncates silently: it fails when the value has more
\* fractional digits than the decimals allow, it fails when the scaled integer is
\* above the maximum, and it returns an amount only when value * 10^decimals is an
\* integer within range, with exactly that integer as raw.
C19_FromUnitsExact ==
    call.op = "from_units" =>
        /\ ~ScalesToInteger(call.text, call.decimals) => IsRaised(call.result)
        /\ ScalesToInteger(call.text, call.decimals)
           /\ ScaledInteger(call.text, call.decimals) > MAX_UINT256
               => IsRaised(call.result)
        /\ ~IsRaised(call.result) =>
               /\ ScalesToInteger(call.text, call.decimals)
               /\ call.result.raw = ScaledInteger(call.text, call.decimals)

\* C20: to_units(precision) with 0 <= precision <= 77 renders raw / 10^decimals
\* exactly, and with a precision below the decimals it drops the extra digits by
\* truncation: the digits are those of floor(raw / 10^(decimals - precision));
\* a precision below 0 or above 77 fails.
C20_ToUnitsTruncates ==
    call.op = "to_units" =>
        IF call.precision < 0 \/ call.precision > 77
        THEN IsRaised(call.result)
        ELSE /\ ~IsRaised(call.result)
             /\ call.result.digits + call.result.zeros = call.precision
             /\ call.result.whole * Pow10(call.result.digits) + call.result.fraction
                    = IF call.precision >= call.a.decimals THEN call.a.raw
                      ELSE call.a.raw \div Pow10(call.a.decimals - call.precision)

RenderedValue(rendered) == rendered.whole * Pow10(rendered.digits) + rendered.fraction
Distance(a, b) == IF a >= b THEN a - b ELSE b - a

\* C21: to_units(precision) with a precision below the amount's decimals gives the
\* decimal with that many fraction digits nearest to raw / 10^decimals; with a
\* precision above the decimals it gives the exact value followed by padding zeros;
\* with the precision left out it renders with the amount's own decimals.
C21_ToUnitsNearest ==
    /\ call.op = "to_units" /\ call.precision >= 0 /\ call.precision <= MAX_DECIMALS =>
           /\ ~IsRaised(call.result)
           /\ call.result.digits + call.result.zeros = call.precision
           /\ call.result.fraction >= 0
           /\ call.result.fraction < Pow10(call.result.digits)
           /\ IF call.precision < call.a.decimals
              THEN /\ call.result.zeros = 0
                   /\ 2 * Distance(RenderedValue(call.result)
                                       * Pow10(call.a.decimals - call.precision),
                                   call.a.raw)
                          <= Pow10(call.a.decimals - call.precision)
              ELSE /\ call.result.digits = call.a.decimals
                   /\ call.result.zeros = call.precision - call.a.decimals
                   /\ RenderedValue(call.result) = call.a.raw
    /\ call.op = "to_units_default" =>
           /\ ~IsRaised(call.result)
           /\ call.result.digits = call.a.decimals
           /\ call.result.zeros = 0
           /\ RenderedValue(call.result) = call.a.raw

\* 1.51 rendered with precision 0 is "2"
C21_Witness ==
    /\ call.op = "to_units"
    /\ call.a = TokenAmount(151, 2)
    /\ call.precision = 0
    /\ call.result = Rendered(2, 0, 0)

\* C22: for every raw in 0 .. 2^256 - 1 and every scale, rendering from_wei(raw, scale)
\* with precision = scale, parsing the string back with from_units at the same scale
\* and taking to_wei gives raw again.
C22_RoundTrip ==
    call.op = "round_trip" /\ call.raw >= 0 /\ call.raw <= MAX_UINT256 =>
        call.result = Ok(call.raw)

C22_Witness ==
    /\ call.op = "round_trip"
    /\ call.raw = 105
    /\ call.decimals = 2
    /\ call.result = Ok(105)

\* the position is in a market at least as good as every capped market of its asset
AtBestCandidate(p) == \A id \in CandidatesOf(p) : ApyOf(p.unique_key) >= ApyOf(id)

\* C23: every move goes to a strictly better market: the market named by the target
\* cap of a Withdraw action has a supply APY strictly above that of the market
\* withdrawn from, and a position whose market APY is at least the APY of the best
\* capped candidate is left alone: nothing is withdrawn from it and nothing is
\* supplied on its behalf.
C23_MovesStrictlyBetter ==
    /\ \A m \in Range(moves) :
           /\ ApyOf(m.target) > ApyOf(m.position.unique_key)
           /\ ~AtBestCandidate(m.position)
    /\ pc = "done" =>
           /\ \A a \in Range(actions) :
                  a.action_type = "withdraw" =>
                      /\ a.target_cap.market_id \in KnownIds
                      /\ ApyOf(a.target_cap.market_id) > ApyOf(a.market_id)
           /\ \A p \in Range(positions) :
                  p.unique_key \in KnownIds /\ AtBestCandidate(p) =>
                      \A a \in Range(actions) : a.current_position # p

\* one position moved into the market where another funded position stays
C23_Witness ==
    /\ pc = "done"
    /\ \E a \in Range(actions), p \in Range(positions) :
           /\ a.action_type = "withdraw"
           /\ p.unique_key = a.target_cap.market_id
           /\ p.supply_assets > 0
           /\ AtBestCandidate(p)
           /\ \A b \in Range(actions) : b.current_position # p

\* room left in a market by the moves made so far, against 5% of its supply
RoomLeft(market) ==
    (market.state.supply_assets * 5) \div 100
        - SumSeq(Amounts(MovesInto(market.unique_key)))
Least(a, b, c) == Min(Min(a, b), c)

\* C24: a position is moved at most once per invocation, into one target. The
\* candidates are walked in APY-descending order; the position's own market and a
\* candidate with no room left are skipped; the position goes to the first candidate
\* where min(supplied assets, room left, liquidity read for the attempt) is positive,
\* that minimum is the amount moved, and no later candidate is tried after a move.
C24_MovedOnceToFirstFit ==
    /\ [](/\ \A i, j \in 1..Len(moves) : i # j => moves[i].at # moves[j].at
          /\ pc = "walk" =>
                 \A i, j \in 1..Len(capped_markets) :
                     i < j => capped_markets[i].state.supply_apy
                                  >= capped_markets[j].state.supply_apy)
    /\ [][pc = "walk" /\ pc' # "raised" =>
              LET pos == grouped_positions[gi].markets[pi]
                  target == capped_markets[ci]
                  last == moves'[Len(moves')]
                  stays == ApyOf(pos.unique_key) >= target.state.supply_apy
                  skipped ==
                      \/ target.unique_key = pos.unique_key
                      \/ RoomLeft(target) <= 0
                      \/ /\ last_read' # NoRead
                         /\ Least(pos.supply_assets, RoomLeft(target),
                                  last_read'.liquidity) <= 0
              IN IF moves' # moves
                 THEN /\ ~stays /\ ~skipped
                      /\ moves' = Append(moves, last)
                      /\ last.at = <<gi, pi>>
                      /\ last.position = pos
                      /\ last.target = target.unique_key
                      /\ last_read' # NoRead
                      /\ last.amount = Least(pos.supply_assets, RoomLeft(target),
                                             last_read'.liquidity)
                      /\ last.amount > 0
                      /\ pc' = "build" \/ <<gi', pi'>> # <<gi, pi>>
                 ELSE /\ stays \/ skipped
                      /\ ~stays /\ ci < Len(capped_markets) =>
                             <<gi', pi', ci'>> = <<gi, pi, ci + 1>>]_vars

\* a position that passed over a candidate without room and moved into the next one
C24_Witness ==
    /\ pc = "done"
    /\ \E i \in 1..Len(moves) :
           LET m == moves[i]
               earlier == SelectSeq(SubSeq(moves, 1, i - 1),
                                    LAMBDA e : e.target # m.target)
           IN /\ m.amount < m.position.supply_assets
              /\ earlier # <<>>
              /\ \E id \in CandidatesOf(m.position) :
                     /\ id # m.target
                     /\ ApyOf(id) > ApyOf(m.target)
                     /\ ApyOf(id) > ApyOf(m.position.unique_key)

\* what a withdrawal takes out of its position: the asset amount of a partial
\* withdrawal, the position's supplied assets for a full exit (asset amount 0, shares)
Taken(m) ==
    IF m.withdrawal.amount.raw = 0 /\ m.withdrawal.shares.raw > 0
    THEN m.position.supply_assets
    ELSE m.withdrawal.amount.raw
TakenAmounts(ms) == [i \in 1..Len(ms) |-> Taken(ms[i])]
SuppliesOfAsset(address) ==
    SelectSeq(actions, LAMBDA a : a.action_type = "supply"
                                      /\ LoanOf(a.market_id) = address)
WithdrawalsOfAsset(address) ==
    SelectSeq(actions, LAMBDA a : a.action_type = "withdraw"
                                      /\ LoanOf(a.market_id) = address)
MovesOfAsset(address) ==
    SelectSeq(moves, LAMBDA m : LoanOf(m.position.unique_key) = address)
PartialMoves(ms) == SelectSeq(ms, LAMBDA m : m.withdrawal.shares.raw = 0)
FullExits(ms) == SelectSeq(ms, LAMBDA m : m.withdrawal.shares.raw > 0)

\* C29: assets are conserved inside a plan: per loan asset the Supply amounts add up
\* to what is taken out of the moved positions (the asset amount of a partial
\* withdrawal, the supplied assets of a fully exited position), the Withdraw actions
\* carry exactly those partial amounts and full-exit shares, and nothing more than a
\* position's supplied assets is taken out of it.
C29_AssetsConserved ==
    /\ \A m \in Range(moves) :
           /\ Taken(m) <= m.position.supply_assets
           /\ SumSeq(TakenAmounts(SelectSeq(moves, LAMBDA e : e.at = m.at)))
                  <= m.position.supply_assets
    /\ pc = "done" =>
           \A address \in {LoanOf(id) : id \in KnownIds} :
               /\ SumSeq(RawAmounts(SuppliesOfAsset(address)))
                      = SumSeq(TakenAmounts(MovesOfAsset(address)))
               /\ SumSeq(RawAmounts(WithdrawalsOfAsset(address)))
                      = SumSeq(WithdrawnAmounts(PartialMoves(MovesOfAsset(address))))
               /\ SumSeq([i \in 1..Len(WithdrawalsOfAsset(address)) |->
                              WithdrawalsOfAsset(address)[i].shares.raw])
                      = SumSeq(WithdrawnShares(FullExits(MovesOfAsset(address))))

\* a plan with a full exit and a partial withdrawal supplied into one market
C29_Witness ==
    /\ pc = "done"
    /\ \E id \in KnownIds :
           /\ Len(SupplyActionsOf(id)) = 1
           /\ FullExits(MovesInto(id)) # <<>>
           /\ PartialMoves(MovesInto(id)) # <<>>

IsWithdraw(a) == a.action_type = "withdraw"
IsSupply(a) == a.action_type = "supply"

\* C25 as stated: every from tuple and every to tuple of a rebalance call composed
\* from a plan of the engine is of a market whose loan asset is the token address of
\* the call.
C25_OneLoanAssetPerCall ==
    pc = "executed" /\ ~IsRaised(rebalance_result) =>
        /\ \A t \in Range(rebalance_result.from_markets_params) :
               t.market_params.loan_token = rebalance_result.token_address
        /\ \A t \in Range(rebalance_result.to_markets_params) :
               t.market_params.loan_token = rebalance_result.token_address

\* C30: a returned plan is empty or holds at least one Withdraw and one Supply, with
\* every Withdraw before every Supply; composing a non-empty plan of the engine
\* therefore never fails for lack of a from or a to entry.
C30_PlanHasBothSides ==
    /\ pc \in {"done", "executed"} /\ actions # <<>> =>
           /\ \E a \in Range(actions) : IsWithdraw(a)
           /\ \E a \in Range(actions) : IsSupply(a)
           /\ \A a \in Range(actions) : IsWithdraw(a) \/ IsSupply(a)
           /\ \A i, j \in 1..Len(actions) :
                  IsWithdraw(actions[i]) /\ IsSupply(actions[j]) => i < j
           /\ \A a \in Range(actions) : a.market_id \in KnownIds
    /\ pc = "executed" =>
           /\ rebalance_result # Raise("ValueError")
           /\ ~IsRaised(rebalance_result)
           /\ rebalance_result.from_markets_params # <<>>
           /\ rebalance_result.to_markets_params # <<>>
           /\ rebalance_result.from_markets_params
                  \o rebalance_result.to_markets_params
                  = [i \in 1..Len(actions) |->
                         IF i = Len(actions)
                         THEN [MarketActionTuple(actions[i], market_data)
                                   EXCEPT !.assets = MAX_UINT256]
                         ELSE MarketActionTuple(actions[i], market_data)]

\* a composed plan of two withdrawals and two supplies
C30_Witness ==
    /\ pc = "executed"
    /\ ~IsRaised(rebalance_result)
    /\ Len(rebalance_result.from_markets_params) = 2
    /\ Len(rebalance_result.to_markets_params) = 2

EventsOf(kind) == SelectSeq(log, LAMBDA e : e.event = kind)
InLoop == pc \in {"analyze", "execute", "notify_run", "finished"}
Addresses(us) == [i \in 1..Len(us) |-> us[i].address]
\* the users of the fetched list the whitelist lets through, in the order fetched
Whitelisted(fetched) ==
    SelectSeq(fetched, LAMBDA u : \/ run.whitelisted_addresses = {}
                                  \/ lower(u.address) \in run.whitelisted_addresses)
\* users whose processing is over and failed: the analysis raised, or the plan was
\* not followed by a reallocation notification
FailedUsers ==
    Len(SelectSeq(EventsOf("analyze"), LAMBDA e : e.outcome = "raised"))
        + Len(SelectSeq(EventsOf("analyze"), LAMBDA e : e.outcome = "plan"))
        - Len(EventsOf("notify_reallocation"))
        - (IF pc = "execute" THEN 1 ELSE 0)

\* C26: in a run a failure for one user never stops the run: the users of the
\* whitelist-filtered list are each processed once, in list order, whatever happened
\* to earlier users; each failing user adds one to the error count; after the last
\* user the run notification is sent with the number of users that had a plan and
\* the number that failed, and the run reaches that point from every user.
C26_RunSurvivesUserFailures ==
    /\ [](InLoop =>
              /\ run.users = Whitelisted(EventsOf("fetch_users")[1].users)
              /\ Len(EventsOf("analyze"))
                     = IF pc = "execute" THEN run.ui ELSE run.ui - 1
              /\ [i \in 1..Len(EventsOf("analyze")) |-> EventsOf("analyze")[i].user]
                     = SubSeq(Addresses(run.users), 1, Len(EventsOf("analyze")))
              /\ run.users_reallocation_errors = FailedUsers
              /\ run.users_reallocation_needed
                     = Len(SelectSeq(EventsOf("analyze"),
                                     LAMBDA e : e.outcome = "plan"))
              /\ pc \in {"notify_run", "finished"} =>
                     Len(EventsOf("analyze")) = Len(run.users)
              /\ pc # "finished" => EventsOf("notify_run") = <<>>
              /\ pc = "finished" =>
                     /\ Len(EventsOf("notify_run")) = 1
                     /\ log[Len(log)]
                            = RunNotified(run.users_reallocation_needed,
                                          run.users_reallocation_errors))
    /\ [][(pc \in {"analyze", "execute"}) =>
              (pc' \in {"analyze", "execute", "notify_run"})]_vars
    /\ (pc \in {"analyze", "execute"}) ~> (pc = "finished")

\* a run of two users that went on after the first one failed
C26_Witness ==
    /\ pc = "finished"
    /\ Len(run.users) = 2
    /\ EventsOf("analyze")[1].outcome = "raised"
    /\ EventsOf("analyze")[2].outcome = "plan"
    /\ run.users_reallocation_errors = 2
    /\ run.users_reallocation_needed = 1
    /\ run.whitelisted_addresses # {}

\* C27: wait_for_acceptable_gas returns at the first reading that is at most
\* max_gas_price, takes at most max_retries readings and times out when all
\* max_retries readings are above the maximum; markets and users are fetched, users
\* analysed and transactions sent only after an acceptable reading, and a run whose
\* wait timed out ends having done none of these.
C27_GasGate ==
    /\ [](LET readings == EventsOf("gas_price")
              Accepted(e) == e.gas_price_wei <= run.max_gas_price * 1000000000
          IN /\ Len(readings) <= run.max_retries
             /\ Len(readings) <= run.attempt
             /\ \A i \in 1..(Len(readings) - 1) : ~Accepted(readings[i])
             /\ pc = "gas" => \A i \in 1..Len(readings) : ~Accepted(readings[i])
             /\ pc \notin {"gas", "timed_out", "failed"} =>
                    readings # <<>> /\ Accepted(readings[Len(readings)])
             /\ pc = "timed_out" =>
                    /\ Len(readings) = run.max_retries
                    /\ \A i \in 1..Len(readings) : ~Accepted(readings[i])
                    /\ log = readings
                    /\ market_data = <<>> /\ run.users = <<>> /\ actions = <<>>
             /\ \A i \in 1..Len(log) :
                    log[i].event \notin {"gas_price", "notify_error"} =>
                        \E j \in 1..(i - 1) :
                            log[j].event = "gas_price" /\ Accepted(log[j]))
    /\ [][pc # "timed_out"]_vars

\* a price one wei above the maximum was turned down and the maximum itself accepted
C27_Witness ==
    /\ pc = "finished"
    /\ run.max_gas_price = 1
    /\ Len(EventsOf("gas_price")) = 2
    /\ EventsOf("gas_price")[1].gas_price_wei = 1000000001
    /\ EventsOf("gas_price")[2].gas_price_wei = 1000000000
    /\ EventsOf("rebalance") # <<>>

\* C28: a rebalance is composed and sent for a user only when the plan just computed
\* for that user has an action, at most once per user per run, and the reallocation
\* notification of a user is issued only right after that user's rebalance returned a
\* transaction hash, never after a failed one.
C28_RebalanceThenNotify ==
    /\ pc = "execute" => actions # <<>>
    /\ \A i \in 1..Len(log) :
           /\ log[i].event = "rebalance" =>
                  /\ i > 1
                  /\ log[i - 1] = Analyzed(log[i].user, "plan")
                  /\ \A j \in 1..Len(log) :
                         j # i /\ log[j].event = "rebalance" =>
                             log[j].user # log[i].user
           /\ log[i].event = "notify_reallocation" =>
                  /\ i > 1
                  /\ log[i].tx_hash # "none"
                  /\ log[i - 1] = RebalanceCalled(log[i].user, TRUE, log[i].tx_hash)
           /\ log[i].event = "analyze" /\ log[i].outcome # "plan" /\ i < Len(log) =>
                  log[i + 1].event \notin {"rebalance", "notify_reallocation"}

\* one user's rebalance failed and was not announced, the next one's was
C28_Witness ==
    /\ pc = "finished"
    /\ Len(EventsOf("rebalance")) = 2
    /\ ~EventsOf("rebalance")[1].sent
    /\ EventsOf("rebalance")[2].sent
    /\ Len(EventsOf("notify_reallocation")) = 1
    /\ EventsOf("notify_reallocation")[1].user = EventsOf("rebalance")[2].user

====
